---- MODULE Spec2Model ----
(***************************************************************************)
(* Model of the `check_service` management command of dj-service-checker   *)
(* (service_checker/management/commands/check_service.py).                 *)
(*                                                                         *)
(* One behaviour is one invocation of the command.  The program counter pc *)
(* follows the statements of Command.handle; the environment (the wall     *)
(* clock and the HTTP client) is a nondeterministic choice at the          *)
(* statement that calls it.  Everything the command does to the outside    *)
(* world is recorded: the lines written to stdout, the log records, the    *)
(* calls of requests.get, the readings of time.time(), and the order of    *)
(* all of them (events).                                                   *)
(*                                                                         *)
(* Time is counted in ticks of 1/1024 second, so that every timestamp and  *)
(* every difference is exactly representable as a binary float and the     *)
(* arithmetic of the model is the arithmetic of the program.               *)
(*                                                                         *)
(* Environment assumptions: requests.get either returns a response or      *)
(* raises an exception of the requests.RequestException hierarchy (the     *)
(* contract of the requests library); the timeout given on the command     *)
(* line is a positive integer.                                             *)
(***************************************************************************)
EXTENDS Integers, Sequences, FiniteSets, TLC

VARIABLES pc, argv, options, start_time, response, response_time, exc,
          stdout, stderr, log, calls, clock_reads, events

vars == <<pc, argv, options, start_time, response, response_time, exc,
          stdout, stderr, log, calls, clock_reads, events>>

(* ---------------------------------------------------------------------- *)
(* Bounds and input sets                                                   *)
(* ---------------------------------------------------------------------- *)

\* Largest value of --timeout that is tried (values 1..MaxTimeout).
MaxTimeout == 3

\* An unbound Python name / an absent command-line argument.
None == <<>>
Some(v) == <<v>>

TicksPerSecond == 2 ^ 10

Urls == {"https://example.com", "http://localhost:8000/health"}

\* Readings of time.time(), in ticks: 0 s, 1/1024 s, 1/64 s, 1 s, 1.5 s.
\* The wall clock is not monotonic, so the second reading may be smaller.
ClockValues == {0, 1, 16, 1024, 1536}

StatusCodes == {200, 201, 204, 301, 404, 500, 503}

\* Exception classes of the requests.RequestException hierarchy.
RequestExceptionClasses ==
    {"RequestException", "ConnectionError", "Timeout", "SSLError", "MissingSchema"}

\* What requests.get may raise: class and str(e).
Exceptions ==
    { [class |-> "RequestException", msg |-> "Connection error"],
      [class |-> "ConnectionError",  msg |-> "Connection refused"],
      [class |-> "ConnectionError",  msg |-> "Name or service not known"],
      [class |-> "Timeout",          msg |-> "Read timed out."],
      [class |-> "SSLError",         msg |-> "certificate verify failed"],
      [class |-> "MissingSchema",    msg |-> "Invalid URL: No scheme supplied"] }

\* The command lines tried: url present or omitted, --timeout given or not.
ArgvSet ==
    [ url     : {None} \cup { Some(u) : u \in Urls },
      timeout : {None} \cup { Some(t) : t \in 1..MaxTimeout } ]

(* ---------------------------------------------------------------------- *)
(* Pure helpers                                                            *)
(* ---------------------------------------------------------------------- *)

\* add_arguments: default=10 of --timeout.
DefaultTimeout == 10

\* add_arguments: 'url' is a positional argument without nargs, hence
\* required: parsing fails when it is absent.
MissingRequired(av) == av.url = None

\* Variant: the value of --timeout is parsed but the default is used.
ParsedOptions_DefaultOnly(av) ==
    [ url |-> av.url[1], timeout |-> DefaultTimeout ]

\* add_arguments + the parser: the options dictionary handed to handle().
ParsedOptions(av) ==
    [ url     |-> av.url[1],
      timeout |-> IF av.timeout = None THEN DefaultTimeout ELSE av.timeout[1] ]

\* The parser's error for a missing positional argument.
UsageErrorText == "Error: the following arguments are required: url"

\* Variant: the elapsed time is left in seconds.
ResponseTime_Seconds(start, end) == end - start

\* response_time = (time.time() - start_time) * 1000, a number of
\* milliseconds; held as its numerator over TicksPerSecond.
ResponseTime(start, end) == (end - start) * 1000

Abs(n) == IF n < 0 THEN 0 - n ELSE n

\* Hundredths nearest to |x| / TicksPerSecond, ties to even: the rounding
\* of the format specification .2f on the exact value of the float.
RoundHundredths(x) ==
    LET q  == Abs(x) * 100
        h0 == q \div TicksPerSecond
        r  == q % TicksPerSecond
    IN  IF 2 * r > TicksPerSecond \/ (2 * r = TicksPerSecond /\ h0 % 2 = 1)
        THEN h0 + 1
        ELSE h0

\* f"{x:.2f}"
Format2f(x) ==
    LET h == RoundHundredths(x)
    IN  (IF x < 0 THEN "-" ELSE "")
        \o ToString(h \div 100) \o "."
        \o ToString((h % 100) \div 10) \o ToString(h % 10)

\* Variant: every 2xx status counts as available.
IsAvailable_Any2xx(status_code) == status_code \in 200..299

\* response.status_code == 200
IsAvailable(status_code) == status_code = 200

\* Variant: except requests.Timeout
Caught_TimeoutOnly(e) == e.class = "Timeout"

\* except requests.RequestException
Caught(e) == e.class \in RequestExceptionClasses

\* The texts of handle().  stdout.write ends every message with a newline.
StartLogText(url) == "start to send a get request to the url=[" \o url \o "]"

AvailableLogText(url) == "Service at " \o url \o " is available"

SuccessText(url, rt) ==
    "Service at " \o url \o " is available! Response time: "
    \o Format2f(rt) \o " ms"

WarningText(url, status_code, rt) ==
    "Service at " \o url \o " responded with status: " \o ToString(status_code)
    \o ". Response time: " \o Format2f(rt) \o " ms"

FailureText(url, e) == "Failed to check service at " \o url \o ": " \o e.msg

Line(style, text) == [style |-> style, text |-> text \o "\n"]

LogRecord(level, text) == [level |-> level, text |-> text]

(* ---------------------------------------------------------------------- *)
(* The state machine                                                       *)
(* ---------------------------------------------------------------------- *)

Init ==
    /\ pc = "parse"
    /\ argv \in ArgvSet
    /\ options = None
    /\ start_time = None
    /\ response = None
    /\ response_time = None
    /\ exc = None
    /\ stdout = <<>>
    /\ stderr = <<>>
    /\ log = <<>>
    /\ calls = <<>>
    /\ clock_reads = <<>>
    /\ events = <<>>

\* Variant: 'url' declared optional (nargs='?'), handle() runs with url None.
ParseArgs_UrlOptional ==
    /\ pc = "parse"
    /\ pc' = "start"
    /\ options' = Some([ url     |-> IF argv.url = None THEN "None" ELSE argv.url[1],
                         timeout |-> IF argv.timeout = None
                                     THEN DefaultTimeout ELSE argv.timeout[1] ])
    /\ UNCHANGED <<argv, start_time, response, response_time, exc, stdout,
                   stderr, log, calls, clock_reads, events>>

\* The framework parses the command line with the parser of add_arguments
\* and calls handle(**options), or reports the usage error.
ParseArgs ==
    /\ pc = "parse"
    /\ IF MissingRequired(argv)
       THEN /\ pc' = "usage_error"
            /\ stderr' = Append(stderr, UsageErrorText)
            /\ UNCHANGED options
       ELSE /\ pc' = "start"
            /\ options' = Some(ParsedOptions(argv))
            /\ UNCHANGED stderr
    /\ UNCHANGED <<argv, start_time, response, response_time, exc, stdout,
                   log, calls, clock_reads, events>>

\* start_time = time.time()
ReadStartTime ==
    /\ pc = "start"
    /\ \E t \in ClockValues :
          /\ start_time' = Some(t)
          /\ clock_reads' = Append(clock_reads, t)
    /\ events' = Append(events, "time")
    /\ pc' = "log_start"
    /\ UNCHANGED <<argv, options, response, response_time, exc, stdout,
                   stderr, log, calls>>

\* logger.debug(f"start to send a get request to the url=[{url}]")
LogStart ==
    /\ pc = "log_start"
    /\ log' = Append(log, LogRecord("DEBUG", StartLogText(options[1].url)))
    /\ events' = Append(events, "debug")
    /\ pc' = "get"
    /\ UNCHANGED <<argv, options, start_time, response, response_time, exc,
                   stdout, stderr, calls, clock_reads>>

\* response = requests.get(url, timeout=timeout): returns a response or
\* raises.
SendGet ==
    /\ pc = "get"
    /\ calls' = Append(calls, [url     |-> options[1].url,
                               timeout |-> options[1].timeout])
    /\ events' = Append(events, "get")
    /\ \/ \E s \in StatusCodes :
             /\ response' = Some([status_code |-> s])
             /\ pc' = "elapsed"
             /\ UNCHANGED exc
       \/ \E e \in Exceptions :
             /\ exc' = Some(e)
             /\ pc' = "raising"
             /\ UNCHANGED response
    /\ UNCHANGED <<argv, options, start_time, response_time, stdout, stderr,
                   log, clock_reads>>

\* response_time = (time.time() - start_time) * 1000
ComputeResponseTime ==
    /\ pc = "elapsed"
    /\ \E t \in ClockValues :
          /\ response_time' = Some(ResponseTime(start_time[1], t))
          /\ clock_reads' = Append(clock_reads, t)
    /\ events' = Append(events, "time")
    /\ pc' = "check"
    /\ UNCHANGED <<argv, options, start_time, response, exc, stdout, stderr,
                   log, calls>>

\* if response.status_code == 200: logger.debug(f"Service at {url} is available")
LogAvailable ==
    /\ pc = "check"
    /\ IsAvailable(response[1].status_code)
    /\ log' = Append(log, LogRecord("DEBUG", AvailableLogText(options[1].url)))
    /\ events' = Append(events, "debug")
    /\ pc' = "write_success"
    /\ UNCHANGED <<argv, options, start_time, response, response_time, exc,
                   stdout, stderr, calls, clock_reads>>

\* self.stdout.write(self.style.SUCCESS(...)), then handle() returns.
WriteSuccess ==
    /\ pc = "write_success"
    /\ stdout' = Append(stdout,
                    Line("SUCCESS", SuccessText(options[1].url, response_time[1])))
    /\ events' = Append(events, "write")
    /\ pc' = "returned"
    /\ UNCHANGED <<argv, options, start_time, response, response_time, exc,
                   stderr, log, calls, clock_reads>>

\* else: self.stdout.write(self.style.WARNING(...)), then handle() returns.
WriteWarning ==
    /\ pc = "check"
    /\ ~ IsAvailable(response[1].status_code)
    /\ stdout' = Append(stdout,
                    Line("WARNING", WarningText(options[1].url,
                                                response[1].status_code,
                                                response_time[1])))
    /\ events' = Append(events, "write")
    /\ pc' = "returned"
    /\ UNCHANGED <<argv, options, start_time, response, response_time, exc,
                   stderr, log, calls, clock_reads>>

\* Variant: the request is sent a second time after a first failure.
ExceptClause_Retry ==
    /\ pc = "raising"
    /\ pc' = IF Len(calls) < 2 THEN "get" ELSE "log_error"
    /\ UNCHANGED <<argv, options, start_time, response, response_time, exc,
                   stdout, stderr, log, calls, clock_reads, events>>

\* Variant: the except clause reads the clock and computes the elapsed time.
ExceptClause_Elapsed ==
    /\ pc = "raising"
    /\ \E t \in ClockValues :
          /\ response_time' = Some(ResponseTime(start_time[1], t))
          /\ clock_reads' = Append(clock_reads, t)
    /\ events' = Append(events, "time")
    /\ pc' = "log_error"
    /\ UNCHANGED <<argv, options, start_time, response, exc, stdout, stderr,
                   log, calls>>

\* except requests.RequestException as e: the exception raised inside the
\* try block is matched against the clause; one it does not match leaves
\* handle().
ExceptClause ==
    /\ pc = "raising"
    /\ pc' = IF Caught(exc[1]) THEN "log_error" ELSE "propagated"
    /\ UNCHANGED <<argv, options, start_time, response, response_time, exc,
                   stdout, stderr, log, calls, clock_reads, events>>

\* Variant: the failure is logged at debug level.
LogError_Debug ==
    /\ pc = "log_error"
    /\ log' = Append(log, LogRecord("DEBUG", FailureText(options[1].url, exc[1])))
    /\ events' = Append(events, "debug")
    /\ pc' = "write_error"
    /\ UNCHANGED <<argv, options, start_time, response, response_time, exc,
                   stdout, stderr, calls, clock_reads>>

\* logger.error(f"Failed to check service at {url}: {e}")
LogError ==
    /\ pc = "log_error"
    /\ log' = Append(log, LogRecord("ERROR", FailureText(options[1].url, exc[1])))
    /\ events' = Append(events, "error")
    /\ pc' = "write_error"
    /\ UNCHANGED <<argv, options, start_time, response, response_time, exc,
                   stdout, stderr, calls, clock_reads>>

\* Variant: the failure is logged but nothing is written to stdout.
WriteError_Silent ==
    /\ pc = "write_error"
    /\ pc' = "returned"
    /\ UNCHANGED <<argv, options, start_time, response, response_time, exc,
                   stdout, stderr, log, calls, clock_reads, events>>

\* Variant: the failure is written in the style of the non-200 branch.
WriteError_Warning ==
    /\ pc = "write_error"
    /\ stdout' = Append(stdout,
                    Line("WARNING", FailureText(options[1].url, exc[1])))
    /\ events' = Append(events, "write")
    /\ pc' = "returned"
    /\ UNCHANGED <<argv, options, start_time, response, response_time, exc,
                   stderr, log, calls, clock_reads>>

\* self.stdout.write(self.style.ERROR(...)), then handle() returns.
WriteError ==
    /\ pc = "write_error"
    /\ stdout' = Append(stdout,
                    Line("ERROR", FailureText(options[1].url, exc[1])))
    /\ events' = Append(events, "write")
    /\ pc' = "returned"
    /\ UNCHANGED <<argv, options, start_time, response, response_time, exc,
                   stderr, log, calls, clock_reads>>

Next ==
    \/ ParseArgs
    \/ ReadStartTime
    \/ LogStart
    \/ SendGet
    \/ ComputeResponseTime
    \/ LogAvailable
    \/ WriteSuccess
    \/ WriteWarning
    \/ ExceptClause
    \/ LogError
    \/ WriteError

Spec == Init /\ [][Next]_vars

\* The command is one synchronous thread: a statement that can run does
\* run, and the GET returns or raises within its timeout.
FairSpec == Spec /\ WF_vars(Next)

(* ---------------------------------------------------------------------- *)
(* Vocabulary of the properties                                            *)
(* ---------------------------------------------------------------------- *)

Returned == pc = "returned"

GotResponse == response # None

GotException == exc # None

\* The outcome a printed line reports, by the style it is written in.
OutcomeOf(line) ==
    CASE line.style = "SUCCESS" -> "Available"
      [] line.style = "WARNING" -> "UnavailableStatus"
      [] line.style = "ERROR"   -> "Failed"

Outcomes == { OutcomeOf(stdout[i]) : i \in DOMAIN stdout }

Count(seq, v) == Cardinality({ i \in DOMAIN seq : seq[i] = v })

IsTimeGetWrite(ev) == ev \in {"time", "get", "write"}

IsLogGetWrite(ev) == ev \in {"debug", "error", "get", "write"}

GivenUrl == argv.url[1]

\* Two decimals of a number of hundredths.
TwoDecimals(h) ==
    ToString(h \div 100) \o "." \o ToString((h % 100) \div 10) \o ToString(h % 10)

(* ---------------------------------------------------------------------- *)
(* C1                                                                      *)
(* ---------------------------------------------------------------------- *)

\* C1: when the GET returned status S, the run prints the "is available"
\* line if and only if S = 200, and for every other S the "responded with
\* status" line carrying that same S.
C1_StatusClassification ==
    (Returned /\ GotResponse) =>
        LET s == response[1].status_code
            t == Format2f(response_time[1])
        IN  /\ Len(stdout) = 1
            /\ (OutcomeOf(stdout[1]) = "Available") <=> (s = 200)
            /\ (s = 200) =>
                  stdout[1].text = "Service at " \o GivenUrl
                      \o " is available! Response time: " \o t \o " ms\n"
            /\ (s # 200) =>
                  /\ OutcomeOf(stdout[1]) = "UnavailableStatus"
                  /\ stdout[1].text = "Service at " \o GivenUrl
                        \o " responded with status: " \o ToString(s)
                        \o ". Response time: " \o t \o " ms\n"

C1_Witness ==
    /\ Returned
    /\ GotResponse
    /\ response[1].status_code = 204
    /\ OutcomeOf(stdout[1]) = "UnavailableStatus"

(* ---------------------------------------------------------------------- *)
(* C2                                                                      *)
(* ---------------------------------------------------------------------- *)

\* C2: every failure raised by the GET is caught: nothing propagates out of
\* handle(), and the run that returns after a failure with message M has
\* printed exactly "Failed to check service at {url}: {M}".
C2_FailureCaught ==
    /\ pc # "propagated"
    /\ GotException => pc \in {"raising", "log_error", "write_error", "returned"}
    /\ (Returned /\ GotException) =>
          /\ Len(stdout) = 1
          /\ OutcomeOf(stdout[1]) = "Failed"
          /\ stdout[1].text = "Failed to check service at " \o GivenUrl
                \o ": " \o exc[1].msg \o "\n"

C2_Witness ==
    /\ Returned
    /\ GotException
    /\ exc[1].class = "ConnectionError"
    /\ Len(stdout) = 1

(* ---------------------------------------------------------------------- *)
(* C3                                                                      *)
(* ---------------------------------------------------------------------- *)

\* C3: a run never holds more than one printed line nor lines of two
\* outcomes; a run that returned printed exactly one line, of one of the
\* three outcomes; and every invocation that supplies a url returns.
C3_ExactlyOneLine ==
    /\ [](Len(stdout) <= 1 /\ Cardinality(Outcomes) <= 1)
    /\ [](Returned =>
            /\ Len(stdout) = 1
            /\ Outcomes \in {{"Available"}, {"UnavailableStatus"}, {"Failed"}})
    /\ ((argv.url # None) ~> Returned)

C3_Witness ==
    /\ Returned
    /\ argv.url # None
    /\ Len(stdout) = 1
    /\ Cardinality(Outcomes) = 1

(* ---------------------------------------------------------------------- *)
(* C4                                                                      *)
(* ---------------------------------------------------------------------- *)

\* C4: when the url argument is omitted the run can only end in the usage
\* error naming `url`; no GET is issued, the clock is not read, nothing is
\* logged and no line is printed.
C4_UsageErrorBeforeNetwork ==
    /\ (argv.url = None) =>
          /\ pc \in {"parse", "usage_error"}
          /\ calls = <<>>
          /\ clock_reads = <<>>
          /\ stdout = <<>>
          /\ events = <<>>
          /\ pc = "usage_error" =>
                stderr = <<"Error: the following arguments are required: url">>
    /\ (pc = "usage_error") => (argv.url = None)

C4_Witness ==
    /\ pc = "usage_error"
    /\ argv.url = None
    /\ Len(stderr) = 1

(* ---------------------------------------------------------------------- *)
(* C5                                                                      *)
(* ---------------------------------------------------------------------- *)

\* C5: every GET is issued with the url of the command line and with the
\* value of --timeout unchanged, or with 10 when --timeout is not given.
C5_TimeoutPassedThrough ==
    \A i \in DOMAIN calls :
        /\ calls[i].url = GivenUrl
        /\ calls[i].timeout =
              IF argv.timeout = None THEN 10 ELSE argv.timeout[1]

C5_Witness ==
    /\ Len(calls) = 1
    /\ argv.timeout = Some(MaxTimeout)
    /\ calls[1].timeout = MaxTimeout

(* ---------------------------------------------------------------------- *)
(* C6                                                                      *)
(* ---------------------------------------------------------------------- *)

\* C6: at most one GET is ever issued; a run that returned issued exactly
\* one; once the GET has answered (response or failure) the run is past
\* the request and never comes back to it.
C6_SingleAttempt ==
    /\ Len(calls) <= 1
    /\ Count(events, "get") = Len(calls)
    /\ Returned => Len(calls) = 1
    /\ (GotResponse \/ GotException) =>
          /\ Len(calls) = 1
          /\ pc \notin {"parse", "start", "log_start", "get"}

C6_Witness ==
    /\ Returned
    /\ Len(calls) = 1
    /\ OutcomeOf(stdout[1]) \in {"UnavailableStatus", "Failed"}

(* ---------------------------------------------------------------------- *)
(* C7                                                                      *)
(* ---------------------------------------------------------------------- *)

\* C7 as stated: after a failed GET the clock is read a second time and the
\* response time is the elapsed time from the start timestamp.
C7_Original ==
    (Returned /\ GotException) =>
        /\ Len(clock_reads) = 2
        /\ response_time = Some(ResponseTime(clock_reads[1], clock_reads[2]))

\* C7 amended: after a failed GET the clock is not read again and no
\* response time is computed; the only reading is the start timestamp, and
\* the line printed is the failure line, which carries no time.  A response
\* time exists only after a received response.
C7_NoResponseTimeOnFailure ==
    /\ GotException =>
          /\ clock_reads = <<start_time[1]>>
          /\ Count(events, "time") = 1
          /\ response_time = None
    /\ (Returned /\ GotException) =>
          stdout[1].text = "Failed to check service at " \o GivenUrl
              \o ": " \o exc[1].msg \o "\n"
    /\ (response_time # None) => GotResponse

C7_Witness ==
    /\ Returned
    /\ GotException
    /\ Len(clock_reads) = 1
    /\ response_time = None

(* ---------------------------------------------------------------------- *)
(* C8                                                                      *)
(* ---------------------------------------------------------------------- *)

\* C8 as stated: a run emits exactly one debug record, before the GET and
\* naming the url, one error record if and only if the outcome is Failed,
\* and no other record.
C8_Original ==
    Returned =>
        /\ Count([i \in DOMAIN log |-> log[i].level], "DEBUG") = 1
        /\ Count([i \in DOMAIN log |-> log[i].level], "ERROR") =
              (IF GotException THEN 1 ELSE 0)
        /\ \A i \in DOMAIN log : log[i].level \in {"DEBUG", "ERROR"}

\* C8 amended: every run emits a debug record naming the url before the
\* GET; a run whose GET returned status 200 emits a second debug record
\* naming the url, after the GET and before the line is printed; a run
\* whose GET failed emits one error record naming the url and the failure
\* text, after the GET and before the line is printed; no other record is
\* emitted.
C8_LogRecords ==
    /\ (calls # <<>>) =>
          /\ log # <<>>
          /\ log[1] = [level |-> "DEBUG",
                       text  |-> "start to send a get request to the url=["
                                 \o GivenUrl \o "]"]
          /\ SelectSeq(SubSeq(events, 1, 3), IsLogGetWrite) = <<"debug", "get">>
    /\ Returned =>
          /\ Len(log) = Count(events, "debug") + Count(events, "error")
          /\ IF GotException
             THEN /\ Len(log) = 2
                  /\ log[2] = [level |-> "ERROR",
                               text  |-> "Failed to check service at "
                                         \o GivenUrl \o ": " \o exc[1].msg]
                  /\ SelectSeq(events, IsLogGetWrite) =
                        <<"debug", "get", "error", "write">>
             ELSE IF response[1].status_code = 200
             THEN /\ Len(log) = 2
                  /\ log[2] = [level |-> "DEBUG",
                               text  |-> "Service at " \o GivenUrl
                                         \o " is available"]
                  /\ SelectSeq(events, IsLogGetWrite) =
                        <<"debug", "get", "debug", "write">>
             ELSE /\ Len(log) = 1
                  /\ SelectSeq(events, IsLogGetWrite) =
                        <<"debug", "get", "write">>

C8_Witness ==
    /\ Returned
    /\ GotResponse
    /\ response[1].status_code = 200
    /\ Len(log) = 2
    /\ log[2].level = "DEBUG"

(* ---------------------------------------------------------------------- *)
(* C9                                                                      *)
(* ---------------------------------------------------------------------- *)

\* C9: on a received response the clock is read exactly twice, before the
\* GET and after it, both before the line is printed; the time printed is
\* (end - start) x 1000 rounded to the nearest hundredth and shown with two
\* decimals: start 1 s and end 1.5 s print 500.00 ms, equal readings print
\* 0.00 ms.
C9_ResponseTime ==
    (Returned /\ GotResponse) =>
        LET start == clock_reads[1]
            end   == clock_reads[2]
            s     == response[1].status_code
            \* hundredths of a millisecond, times TicksPerSecond
            exact == Abs(end - start) * 1000 * 100
            low   == exact \div TicksPerSecond
            head  == IF s = 200
                     THEN "Service at " \o GivenUrl
                          \o " is available! Response time: "
                     ELSE "Service at " \o GivenUrl
                          \o " responded with status: " \o ToString(s)
                          \o ". Response time: "
            sign  == IF end < start THEN "-" ELSE ""
        IN  /\ Len(clock_reads) = 2
            /\ start_time = Some(start)
            /\ SelectSeq(events, IsTimeGetWrite) = <<"time", "get", "time", "write">>
            /\ \E h \in {low, low + 1} :
                  /\ 2 * Abs(h * TicksPerSecond - exact) <= TicksPerSecond
                  /\ stdout[1].text = head \o sign \o TwoDecimals(h) \o " ms\n"
            /\ (start = TicksPerSecond /\ 2 * end = 3 * TicksPerSecond) =>
                  stdout[1].text = head \o "500.00 ms\n"
            /\ (start = end) =>
                  stdout[1].text = head \o "0.00 ms\n"

C9_Witness ==
    /\ Returned
    /\ GotResponse
    /\ clock_reads = <<TicksPerSecond, (3 * TicksPerSecond) \div 2>>
    /\ stdout[1].text = "Service at " \o GivenUrl
          \o " is available! Response time: 500.00 ms\n"

(* ---------------------------------------------------------------------- *)
(* C10                                                                     *)
(* ---------------------------------------------------------------------- *)

\* C10: in every run that returned, a status code is present if and only if
\* the outcome is Available or UnavailableStatus, and an error message is
\* present if and only if the outcome is Failed; never both, never neither.
C10_ResultShape ==
    Returned =>
        /\ Len(stdout) = 1
        /\ GotResponse <=> (OutcomeOf(stdout[1]) \in {"Available", "UnavailableStatus"})
        /\ GotException <=> (OutcomeOf(stdout[1]) = "Failed")
        /\ ~ (GotResponse /\ GotException)
        /\ GotResponse \/ GotException

C10_Witness ==
    /\ Returned
    /\ GotResponse
    /\ ~ GotException
    /\ OutcomeOf(stdout[1]) = "Available"

====
